---- MODULE Spec2Model ----
(***************************************************************************)
(* Lease-versus-own cash-flow calculator (src/app.py).                     *)
(*                                                                         *)
(* The program computes with Python floats.  A float is modelled as a      *)
(* binary floating-point number m * 2^e whose significand has at most      *)
(* Precision bits, every arithmetic operation rounding its exact result    *)
(* to the nearest such number, ties to even (IEEE 754 binary64 is the      *)
(* case Precision = 53).  Exponents are unbounded, zero is unsigned, and   *)
(* there is no infinity or NaN: the values handled stay far from both.     *)
(***************************************************************************)
EXTENDS Integers, Sequences, FiniteSets, TLC

\* ------------------------------------------------------------------------
\* Bounds of the model
\* ------------------------------------------------------------------------
Precision == 7
MaxYears == 4
MaxTerm == 5
MaxDepr == 3
MaxLen == 3

\* ------------------------------------------------------------------------
\* Floating-point arithmetic
\* ------------------------------------------------------------------------
Abs(n) == IF n < 0 THEN -n ELSE n

Sgn(n) == IF n < 0 THEN -1 ELSE IF n > 0 THEN 1 ELSE 0

Pow2(k) == IF k <= 0 THEN 1 ELSE 2 ^ k

\* the number of bits of n, for 0 <= n < 2^30
BitLen4(n) ==
    IF n < 1 THEN 0 ELSE IF n < 2 THEN 1 ELSE IF n < 4 THEN 2 ELSE IF n < 8 THEN 3 ELSE 4

BitLen8(n) == IF n < 16 THEN BitLen4(n) ELSE 4 + BitLen4(n \div 16)

BitLen16(n) == IF n < 256 THEN BitLen8(n) ELSE 8 + BitLen8(n \div 256)

BitLen(n) == IF n < 65536 THEN BitLen16(n) ELSE 16 + BitLen16(n \div 65536)

\* the value of an expression, evaluated once
Value(x) == CHOOSE v \in {x} : TRUE

\* The canonical form of m * 2^e: zero is <<0,0>>, otherwise m is odd.
Norm(m, e) ==
    IF m = 0 THEN [m |-> 0, e |-> 0]
    ELSE LET k == CHOOSE k \in 0..29 :
                      Abs(m) % Pow2(k) = 0 /\ Abs(m) % Pow2(k + 1) # 0
         IN  [m |-> Sgn(m) * (Abs(m) \div Pow2(k)), e |-> e + k]

\* m * 2^e rounded to Precision significant bits, nearest, ties to even.
RoundN(m, e) ==
    LET a == Abs(m)
        k == BitLen(a) - Precision
    IN  IF k <= 0 THEN Norm(m, e)
        ELSE LET q == a \div Pow2(k)
                 r == a % Pow2(k)
                 half == Pow2(k - 1)
                 up == r > half \/ (r = half /\ q % 2 = 1)
             IN  Norm(Value(Sgn(m) * (IF up THEN q + 1 ELSE q)), e + k)

Zero == [m |-> 0, e |-> 0]

One == [m |-> 1, e |-> 0]

\* int -> float conversion
FromInt(n) == RoundN(n, 0)

\* position of the leading bit: |x| lies in [2^(Top-1), 2^Top)
Top(x) == x.e + BitLen(Abs(x.m))

FNeg(x) == [m |-> -x.m, e |-> x.e]

Product(x, y) == RoundN(Value(x.m * y.m), x.e + y.e)

FMul(x, y) == CHOOSE r \in {Product(a, b) : a \in {x}, b \in {y}} : TRUE

Total(x, y) ==
    IF x.m = 0 THEN y
    ELSE IF y.m = 0 THEN x
    ELSE IF Top(x) - Top(y) >= Precision + 2 THEN x
    ELSE IF Top(y) - Top(x) >= Precision + 2 THEN y
    ELSE LET e0 == IF x.e < y.e THEN x.e ELSE y.e
         IN  RoundN(Value(x.m * Pow2(x.e - e0) + y.m * Pow2(y.e - e0)), e0)

FAdd(x, y) == CHOOSE r \in {Total(a, b) : a \in {x}, b \in {y}} : TRUE

FSub(x, y) == FAdd(x, FNeg(y))

\* x / y for y # 0: the quotient is taken with 2*Precision+2 extra bits and
\* a sticky bit, then rounded once.
Quotient(x, y) ==
    IF x.m = 0 THEN Zero
    ELSE LET s == 2 * Precision + 2
             n == Abs(x.m) * Pow2(s)
             q == n \div Abs(y.m)
             st == IF n % Abs(y.m) = 0 THEN 0 ELSE 1
         IN  RoundN(Value(Sgn(x.m) * Sgn(y.m) * (2 * q + st)), x.e - y.e - s - 1)

FDiv(x, y) == CHOOSE r \in {Quotient(a, b) : a \in {x}, b \in {y}} : TRUE

\* x ** t for an int t >= 0, by repeated rounded multiplication (the C
\* library's pow agrees with it wherever the products are exact, as for
\* t = 0 and for x = 1)
RECURSIVE FPow(_, _)
FPow(x, t) == IF t <= 0 THEN One ELSE FMul(FPow(x, t - 1), x)

\* exact comparisons
FSign(x) == Sgn(x.m)

FLess(x, y) == FSign(FSub(x, y)) < 0

FLeq(x, y) == FSign(FSub(x, y)) <= 0

FAbs(x) == [m |-> Abs(x.m), e |-> x.e]

\* a decimal literal or quotient a/b as the nearest float
Frac(a, b) == FDiv(FromInt(a), FromInt(b))

\* ------------------------------------------------------------------------
\* State
\* ------------------------------------------------------------------------
VARIABLES
    session_state,  \* st.session_state: key -> value, for the keys present
    last_edit,      \* history: key -> the value of the widget changed last
    pending,        \* the widget key whose on_change callback is due, or ""
    pc,             \* position of the script run
    p,              \* module-level working values (lines 133-155)
    own,            \* frame of ownership_cashflows
    lease,          \* frame of leasing_cashflows
    own_cf, lease_cf, own_npv, lease_npv,
    df,             \* the yearly table (lines 184-191)
    error           \* the exception that ended the run, or "none"

vars == <<session_state, last_edit, pending, pc, p, own, lease,
          own_cf, lease_cf, own_npv, lease_npv, df, error>>

\* ------------------------------------------------------------------------
\* Financial model functions
\* ------------------------------------------------------------------------

\* sum(...) of a list of floats, left to right from 0
RECURSIVE Sum(_)
Sum(s) == IF s = <<>> THEN Zero ELSE FAdd(Sum(SubSeq(s, 1, Len(s) - 1)), s[Len(s)])

\* a discount exponent counted from 1: the first element discounted one year
DiscountFromOne(i) == i

\* the discount exponent enumerate() pairs with the element at list index i
\* (the list index is 1-based here, Python's t is 0-based)
DiscountExponent(i) == i - 1

npv(cashflows, discount_rate) ==
    Sum([i \in 1..Len(cashflows) |->
            FDiv(cashflows[i], FPow(FAdd(One, discount_rate), DiscountExponent(i)))])

OwnBlank ==
    [annual_depreciation |-> Zero, debt_amount |-> Zero,
     annual_principal_payment |-> Zero, outstanding_debt |-> Zero,
     cashflows |-> <<>>, op_cost |-> Zero, t |-> 0,
     interest_expense |-> Zero, financing_cash |-> Zero, depreciation |-> Zero,
     tax_shield |-> Zero, net_cash |-> Zero]

\* a year-0 outflow of the whole CAPEX, the debt-financed share included
YearZeroFullCapex(q) == FNeg(q.CAPEX)

\* ownership_cashflows up to the loop, for depreciation_years # 0 (OwnEnter
\* raises ZeroDivisionError otherwise)
YearZero(q) == FMul(FNeg(q.CAPEX), FSub(One, q.debt_ratio))

\* a payment schedule that takes a debt term of 0 for a term of one year
PrincipalPaymentLumpSum(q, debt_amount) ==
    IF q.debt_term > 0 THEN FDiv(debt_amount, FromInt(q.debt_term)) ELSE debt_amount

PrincipalPayment(q, debt_amount) ==
    IF q.debt_term > 0 THEN FDiv(debt_amount, FromInt(q.debt_term)) ELSE Zero

OwnStart(q) ==
    LET debt_amount == FMul(q.CAPEX, q.debt_ratio)
    IN  [OwnBlank EXCEPT
            !.annual_depreciation = FDiv(q.CAPEX, FromInt(q.depreciation_years)),
            !.debt_amount = debt_amount,
            !.annual_principal_payment = PrincipalPayment(q, debt_amount),
            !.outstanding_debt = debt_amount,
            !.cashflows = <<YearZero(q)>>,
            !.op_cost = q.operating_cost]

InterestExpense(outstanding_debt, q) ==
    IF FSign(outstanding_debt) > 0 THEN FMul(outstanding_debt, q.interest_rate) ELSE Zero

\* a repayment window one year short
PrincipalDueBeforeTerm(t, q) == t < q.debt_term

PrincipalDue(t, q) == t <= q.debt_term

\* a depreciation horizon tied to the debt term
DepreciatesUntilDebtTerm(t, q) == t <= q.debt_term

Depreciates(t, q) == t <= q.depreciation_years

\* salvage credited in every year
SalvageEveryYear(t, q) == TRUE

SalvageDue(t, q) == t = q.analysis_years

NetCash(op_cost, financing_cash, tax_shield) ==
    FAdd(FSub(FNeg(op_cost), financing_cash), tax_shield)

\* growth added instead of compounded
EscalateAdditive(amount, rate) == FAdd(amount, rate)

Escalate(amount, rate) == FMul(amount, FAdd(One, rate))

\* one iteration of the loop of ownership_cashflows, for year f.t + 1
OwnStep(f, q) ==
    LET t == f.t + 1
        interest_expense == Value(InterestExpense(f.outstanding_debt, q))
        financing_cash ==
            Value(IF PrincipalDue(t, q)
                  THEN FAdd(f.annual_principal_payment, interest_expense)
                  ELSE interest_expense)
        depreciation == IF Depreciates(t, q) THEN f.annual_depreciation ELSE Zero
        tax_shield == Value(FMul(FAdd(depreciation, interest_expense), q.tax_rate))
        net0 == Value(NetCash(f.op_cost, financing_cash, tax_shield))
        net_cash == Value(IF SalvageDue(t, q) THEN FAdd(net0, q.salvage_value) ELSE net0)
    IN  [f EXCEPT
            !.t = t,
            !.interest_expense = interest_expense,
            !.financing_cash = financing_cash,
            !.depreciation = depreciation,
            !.tax_shield = tax_shield,
            !.net_cash = net_cash,
            !.cashflows = Append(f.cashflows, net_cash),
            !.outstanding_debt =
                IF PrincipalDue(t, q) THEN FSub(f.outstanding_debt, f.annual_principal_payment)
                ELSE f.outstanding_debt,
            !.op_cost = Escalate(f.op_cost, q.op_cost_growth)]

\* the loop runs for t in range(1, n_years + 1)
OwnMore(f, q) == f.t < q.analysis_years

RECURSIVE OwnLoop(_, _)
OwnLoop(f, q) == IF OwnMore(f, q) THEN OwnLoop(OwnStep(f, q), q) ELSE f

\* ownership_cashflows(...) as a function, for depreciation_years # 0
ownership_cashflows(q) == OwnLoop(OwnStart(q), q).cashflows

LeaseBlank == [cashflows |-> <<>>, lease_payment |-> Zero, t |-> 0, net_cash |-> Zero]

LeaseStart(q) ==
    [LeaseBlank EXCEPT !.cashflows = <<Zero>>, !.lease_payment = q.initial_lease_payment]

\* a lease payment without its tax deduction
LeaseNetNoShield(lease_payment, tax_rate) == FNeg(lease_payment)

LeaseNet(lease_payment, tax_rate) == FAdd(FNeg(lease_payment), FMul(lease_payment, tax_rate))

LeaseStep(f, q) ==
    LET net_cash == Value(LeaseNet(f.lease_payment, q.tax_rate))
    IN  [f EXCEPT
            !.t = f.t + 1,
            !.net_cash = net_cash,
            !.cashflows = Append(f.cashflows, net_cash),
            !.lease_payment = Escalate(f.lease_payment, q.lease_escalation)]

LeaseMore(f, q) == f.t < q.analysis_years

\* df[...].cumsum()
CumSum(s) == [i \in 1..Len(s) |-> Sum(SubSeq(s, 1, i))]

\* list(range(0, analysis_years + 1))
YearsRange(n) == [i \in 1..(IF n + 1 > 0 THEN n + 1 ELSE 0) |-> i - 1]

\* ------------------------------------------------------------------------
\* The script run, from the engine calls on (lines 160-191)
\* ------------------------------------------------------------------------

\* line 160 entering ownership_cashflows, lines 86-93
OwnEnter ==
    /\ pc = "own_call"
    /\ IF p.depreciation_years = 0
       THEN /\ pc' = "error"
            /\ error' = "ZeroDivisionError"
            /\ own' = own
       ELSE /\ pc' = "own_loop"
            /\ own' = OwnStart(p)
            /\ error' = error
    /\ UNCHANGED <<session_state, last_edit, pending, p, lease,
                   own_cf, lease_cf, own_npv, lease_npv, df>>

\* lines 95-110, one iteration
OwnIter ==
    /\ pc = "own_loop"
    /\ OwnMore(own, p)
    /\ own' = OwnStep(own, p)
    /\ UNCHANGED <<session_state, last_edit, pending, pc, p, lease,
                   own_cf, lease_cf, own_npv, lease_npv, df, error>>

\* line 112, and the assignment of line 160
OwnReturn ==
    /\ pc = "own_loop"
    /\ ~OwnMore(own, p)
    /\ own_cf' = own.cashflows
    /\ pc' = "lease_call"
    /\ UNCHANGED <<session_state, last_edit, pending, p, own, lease,
                   lease_cf, own_npv, lease_npv, df, error>>

\* line 163 entering leasing_cashflows, lines 122-123
LeaseEnter ==
    /\ pc = "lease_call"
    /\ lease' = LeaseStart(p)
    /\ pc' = "lease_loop"
    /\ UNCHANGED <<session_state, last_edit, pending, p, own,
                   own_cf, lease_cf, own_npv, lease_npv, df, error>>

\* lines 124-127, one iteration
LeaseIter ==
    /\ pc = "lease_loop"
    /\ LeaseMore(lease, p)
    /\ lease' = LeaseStep(lease, p)
    /\ UNCHANGED <<session_state, last_edit, pending, pc, p, own,
                   own_cf, lease_cf, own_npv, lease_npv, df, error>>

\* line 128, and the assignment of line 163
LeaseReturn ==
    /\ pc = "lease_loop"
    /\ ~LeaseMore(lease, p)
    /\ lease_cf' = lease.cashflows
    /\ pc' = "npv_own"
    /\ UNCHANGED <<session_state, last_edit, pending, p, own, lease,
                   own_cf, own_npv, lease_npv, df, error>>

\* line 164
NpvOwn ==
    /\ pc = "npv_own"
    /\ own_npv' = npv(own_cf, p.wacc)
    /\ pc' = "npv_lease"
    /\ UNCHANGED <<session_state, last_edit, pending, p, own, lease,
                   own_cf, lease_cf, lease_npv, df, error>>

\* line 165
NpvLease ==
    /\ pc = "npv_lease"
    /\ lease_npv' = npv(lease_cf, p.wacc)
    /\ pc' = "table"
    /\ UNCHANGED <<session_state, last_edit, pending, p, own, lease,
                   own_cf, lease_cf, own_npv, df, error>>

\* lines 184-191: pandas refuses columns of unequal length
BuildTable ==
    /\ pc = "table"
    /\ LET years_range == YearsRange(p.analysis_years)
       IN  IF Len(own_cf) = Len(years_range) /\ Len(lease_cf) = Len(years_range)
           THEN /\ df' = [Year |-> years_range, Owning |-> own_cf, Leasing |-> lease_cf,
                          CumulativeOwning |-> CumSum(own_cf),
                          CumulativeLeasing |-> CumSum(lease_cf)]
                /\ pc' = "render"
                /\ error' = error
           ELSE /\ df' = df
                /\ pc' = "error"
                /\ error' = "ValueError"
    /\ UNCHANGED <<session_state, last_edit, pending, p, own, lease,
                   own_cf, lease_cf, own_npv, lease_npv>>

Engine ==
    \/ OwnEnter \/ OwnIter \/ OwnReturn
    \/ LeaseEnter \/ LeaseIter \/ LeaseReturn
    \/ NpvOwn \/ NpvLease \/ BuildTable

\* ------------------------------------------------------------------------
\* The engine on every parameter set of a bounded domain: the arguments are
\* drawn at the call of line 160.
\* ------------------------------------------------------------------------
NoTable == [Year |-> <<>>, Owning |-> <<>>, Leasing |-> <<>>,
            CumulativeOwning |-> <<>>, CumulativeLeasing |-> <<>>]

SalvageVals == {Zero, FromInt(40), Frac(81, 2)}

Params ==
    [CAPEX : {FromInt(96)},
     debt_ratio : {Zero, Frac(1, 2), Frac(6, 10), One},
     interest_rate : {Zero, Frac(1, 16)},
     debt_term : 0..MaxTerm,
     analysis_years : 1..MaxYears,
     operating_cost : {FromInt(12)},
     op_cost_growth : {Frac(1, 8)},
     depreciation_years : 1..MaxDepr,
     tax_rate : {Frac(1, 4), Frac(3, 10)},
     salvage_value : SalvageVals,
     initial_lease_payment : {FromInt(18)},
     lease_escalation : {Frac(3, 100)},
     wacc : {Frac(6, 100)}]

AtCall(q) ==
    /\ p = q
    /\ pc = "own_call"
    /\ session_state = <<>>
    /\ last_edit = <<>>
    /\ pending = ""
    /\ own = OwnBlank
    /\ lease = LeaseBlank
    /\ own_cf = <<>>
    /\ lease_cf = <<>>
    /\ own_npv = Zero
    /\ lease_npv = Zero
    /\ df = NoTable
    /\ error = "none"

Init == \E q \in Params : AtCall(q)

Next == Engine

Spec == Init /\ [][Next]_vars

\* ------------------------------------------------------------------------
\* Properties of the engine
\* ------------------------------------------------------------------------
Min(a, b) == IF a < b THEN a ELSE b

\* exact (unrounded) arithmetic on m * 2^e, for error bounds
XAdd(x, y) ==
    LET e0 == Min(x.e, y.e)
    IN  [m |-> x.m * Pow2(x.e - e0) + y.m * Pow2(y.e - e0), e |-> e0]

XMul(x, y) == [m |-> x.m * y.m, e |-> x.e + y.e]

XLeq(x, y) == XAdd(x, FNeg(y)).m <= 0

\* k * 2^(-Precision) * |x|: k unit roundoffs of x
Roundoffs(k, x) == [m |-> k * Abs(x.m), e |-> x.e - Precision]

\* x with y subtracted k times, each subtraction rounded
RECURSIVE SubtractTimes(_, _, _)
SubtractTimes(x, y, k) == IF k <= 0 THEN x ELSE FSub(SubtractTimes(x, y, k - 1), y)

\* c compounded k times at rate g, each product rounded
RECURSIVE Compound(_, _, _)
Compound(c, g, k) == IF k <= 0 THEN c ELSE FMul(Compound(c, g, k - 1), FAdd(One, g))

Amortizing == pc = "own_loop" /\ 0 < p.debt_term /\ p.debt_term <= p.analysis_years

\* C2 as stated: for 0 < debtTermYears <= analysisYears the outstanding debt
\* after year debtTermYears is exactly 0 and stays 0, so the interest expense
\* and the financing cash of every later year are 0; after year t it equals
\* debtAmount - min(t, debtTermYears) * (debtAmount / debtTermYears) and is
\* never negative.
C2_DebtExactlyZero ==
    Amortizing =>
        LET d == FMul(p.CAPEX, p.debt_ratio)
            k == Min(own.t, p.debt_term)
        IN  /\ own.t >= p.debt_term => own.outstanding_debt = Zero
            /\ own.t > p.debt_term =>
                   own.interest_expense = Zero /\ own.financing_cash = Zero
            /\ own.outstanding_debt =
                   FSub(d, FMul(FromInt(k), FDiv(d, FromInt(p.debt_term))))
            /\ FSign(own.outstanding_debt) >= 0

\* C2 as amended: for 0 < debtTermYears <= analysisYears the outstanding debt
\* after year t is debtAmount with the rounded payment debtAmount /
\* debtTermYears subtracted min(t, debtTermYears) times; from year
\* debtTermYears on it keeps one value, the residual, which is 0 up to
\* rounding (at most (debtTermYears + 1) unit roundoffs of debtAmount, of
\* either sign, and exactly 0 when debtTermYears = 1 or debtAmount = 0); in
\* every year t > debtTermYears the financing cash is the interest expense
\* alone, and that is residual * interestRate for a positive residual and 0
\* otherwise.
C2_DebtAmortizes ==
    Amortizing =>
        LET d == FMul(p.CAPEX, p.debt_ratio)
            pay == FDiv(d, FromInt(p.debt_term))
            residual == SubtractTimes(d, pay, p.debt_term)
        IN  /\ own.outstanding_debt = SubtractTimes(d, pay, Min(own.t, p.debt_term))
            /\ own.t >= p.debt_term =>
                   /\ own.outstanding_debt = residual
                   /\ XLeq(FAbs(residual), Roundoffs(p.debt_term + 1, d))
                   /\ (p.debt_term = 1 \/ d = Zero) => residual = Zero
            /\ own.t > p.debt_term =>
                   /\ own.financing_cash = own.interest_expense
                   /\ own.interest_expense =
                          IF FSign(residual) > 0 THEN FMul(residual, p.interest_rate)
                          ELSE Zero

C2_Witness ==
    /\ Amortizing
    /\ own.t > p.debt_term
    /\ FSign(own.outstanding_debt) > 0
    /\ own.interest_expense # Zero

OwnReturned == pc \in {"lease_call", "lease_loop", "npv_own", "npv_lease", "table", "render"}

\* the sequence ownership_cashflows returns with salvage_value replaced by s
\* (the call's own result is own_cf, in the state the call returns to)
WithSalvage(s) == ownership_cashflows([p EXCEPT !.salvage_value = s])

\* C3 as stated: two calls that differ only in salvageValue agree at every
\* index 0..analysisYears-1 and differ at index analysisYears by exactly
\* s1 - s2.
C3_SalvageExactDifference ==
    pc = "lease_call" =>
        \A s2 \in SalvageVals : \A other \in {WithSalvage(s2)} :
            LET n == p.analysis_years
            IN  /\ Len(other) = Len(own_cf)
                /\ \A i \in 1..n : own_cf[i] = other[i]
                /\ FSub(own_cf[n + 1], other[n + 1]) = FSub(p.salvage_value, s2)

\* C3 as amended: two calls that differ only in salvageValue agree at every
\* index 0..analysisYears-1, and at index analysisYears each holds the same
\* pre-salvage net cash (the entry of the call with salvageValue 0) with its
\* own salvageValue added in one rounded addition.
C3_SalvageOnlyFinalYear ==
    pc = "lease_call" =>
        \A s2 \in SalvageVals : \A other \in {WithSalvage(s2)}, base \in {WithSalvage(Zero)} :
            LET n == p.analysis_years
            IN  /\ Len(other) = Len(own_cf)
                /\ \A i \in 1..n : own_cf[i] = other[i]
                /\ own_cf[n + 1] = FAdd(base[n + 1], p.salvage_value)
                /\ other[n + 1] = FAdd(base[n + 1], s2)

C3_Witness ==
    /\ pc = "lease_call"
    /\ p.analysis_years >= 2
    /\ p.salvage_value # Zero
    /\ own_cf[p.analysis_years + 1] # WithSalvage(Zero)[p.analysis_years + 1]
    /\ own_cf[p.analysis_years] = WithSalvage(Zero)[p.analysis_years]

\* C4: in every year t the depreciation entering the tax shield is
\* capex / depreciationYears for t <= depreciationYears and 0 after, whatever
\* debtTermYears is, and the principal is repaid exactly in the years
\* t <= min(debtTermYears, analysisYears), whatever depreciationYears is.
C4_OwnHorizons ==
    (pc = "own_loop" /\ own.t >= 1) =>
        LET d == FMul(p.CAPEX, p.debt_ratio)
            dep == IF own.t <= p.depreciation_years
                   THEN FDiv(p.CAPEX, FromInt(p.depreciation_years))
                   ELSE Zero
        IN  /\ own.depreciation = dep
            /\ own.tax_shield = FMul(FAdd(dep, own.interest_expense), p.tax_rate)
            /\ own.outstanding_debt =
                   SubtractTimes(d, own.annual_principal_payment, Min(own.t, p.debt_term))
            /\ own.financing_cash =
                   IF own.t <= p.debt_term
                   THEN FAdd(own.annual_principal_payment, own.interest_expense)
                   ELSE own.interest_expense

C4_Witness ==
    /\ pc = "own_loop"
    /\ own.t = 2
    /\ p.depreciation_years = 1
    /\ p.debt_term >= 2
    /\ own.depreciation = Zero
    /\ own.outstanding_debt # own.debt_amount
    /\ own.financing_cash # own.interest_expense

\* C5 as stated: leasing_cashflows returns analysisYears + 1 entries, entry 0
\* is 0, and entry t is -P_t * (1 - taxRate) with P_1 = leaseInitialPayment
\* and P_(t+1) = P_t * (1 + leaseEscalation).
C5_LeaseOneMinusTax ==
    /\ (pc = "lease_loop" /\ lease.t >= 1) =>
           lease.cashflows[lease.t + 1] =
               FMul(FNeg(Compound(p.initial_lease_payment, p.lease_escalation, lease.t - 1)),
                    FSub(One, p.tax_rate))
    /\ pc = "lease_loop" => lease.cashflows[1] = Zero /\ Len(lease.cashflows) = lease.t + 1
    /\ pc \in {"npv_own", "npv_lease", "table", "render"} =>
           Len(lease_cf) = p.analysis_years + 1 /\ lease_cf[1] = Zero

\* C5 as amended: leasing_cashflows returns analysisYears + 1 entries, entry 0
\* is 0, and entry t is -P_t + P_t * taxRate as the code evaluates it, which
\* is -P_t * (1 - taxRate) up to rounding (within 3 unit roundoffs of P_t),
\* with P_1 = leaseInitialPayment and P_(t+1) = P_t * (1 + leaseEscalation).
C5_LeaseSequence ==
    /\ (pc = "lease_loop" /\ lease.t >= 1) =>
           LET P == Compound(p.initial_lease_payment, p.lease_escalation, lease.t - 1)
               entry == lease.cashflows[lease.t + 1]
               exact == XMul(FNeg(P), XAdd(One, FNeg(p.tax_rate)))
               diff == XAdd(entry, FNeg(exact))
           IN  /\ entry = FAdd(FNeg(P), FMul(P, p.tax_rate))
               /\ XLeq(FAbs(diff), Roundoffs(3, P))
               /\ lease.lease_payment = FMul(P, FAdd(One, p.lease_escalation))
    /\ pc = "lease_loop" =>
           /\ lease.cashflows[1] = Zero
           /\ Len(lease.cashflows) = lease.t + 1
           /\ lease.t = 0 => lease.lease_payment = p.initial_lease_payment
    /\ pc \in {"npv_own", "npv_lease", "table", "render"} =>
           Len(lease_cf) = p.analysis_years + 1 /\ lease_cf[1] = Zero

C5_Witness ==
    /\ pc = "lease_loop"
    /\ lease.t = 2
    /\ lease.cashflows[3] # lease.cashflows[2]
    /\ lease.cashflows[2] =
           FAdd(FNeg(p.initial_lease_payment), FMul(p.initial_lease_payment, p.tax_rate))

\* C7: with debtTermYears = 0 the call completes without a division error,
\* the annual principal payment is 0, the outstanding debt is capex *
\* debtRatio in every iteration, and every year's interest expense is capex *
\* debtRatio * interestRate (0 only if debtRatio = 0 or interestRate = 0).
C7_ZeroDebtTerm ==
    p.debt_term = 0 =>
        LET d == FMul(p.CAPEX, p.debt_ratio)
        IN  /\ error = "none"
            /\ pc # "error"
            /\ pc = "own_loop" =>
                   /\ own.annual_principal_payment = Zero
                   /\ own.outstanding_debt = d
                   /\ own.t >= 1 =>
                          /\ own.interest_expense = FMul(d, p.interest_rate)
                          /\ own.financing_cash = own.interest_expense
                          /\ own.interest_expense = Zero =>
                                 p.debt_ratio = Zero \/ p.interest_rate = Zero
            /\ OwnReturned => Len(own_cf) = p.analysis_years + 1

C7_Witness ==
    /\ p.debt_term = 0
    /\ pc = "own_loop"
    /\ own.t = p.analysis_years
    /\ own.t >= 2
    /\ own.interest_expense # Zero
    /\ own.outstanding_debt = own.debt_amount

\* C8: ownership_cashflows returns analysisYears + 1 entries, as many as the
\* leasing sequence and the year column, and entry 0 is -capex * (1 -
\* debtRatio), a function of capex and debtRatio alone.
C8_YearZeroAndLength ==
    /\ pc = "own_loop" =>
           /\ Len(own.cashflows) = own.t + 1
           /\ own.cashflows[1] = FMul(FNeg(p.CAPEX), FSub(One, p.debt_ratio))
    /\ OwnReturned =>
           /\ Len(own_cf) = p.analysis_years + 1
           /\ own_cf[1] = FMul(FNeg(p.CAPEX), FSub(One, p.debt_ratio))
    /\ pc \in {"npv_own", "npv_lease", "table", "render"} => Len(lease_cf) = Len(own_cf)
    /\ pc = "render" =>
           /\ error = "none"
           /\ Len(df.Year) = Len(own_cf)
           /\ df.Owning = own_cf
    /\ pc # "error"

C8_Witness ==
    /\ pc = "render"
    /\ p.debt_ratio = Frac(1, 2)
    /\ p.CAPEX = FromInt(96)
    /\ own_cf[1] = FNeg(FromInt(48))
    /\ Len(df.Year) = p.analysis_years + 1

CfVals == {FromInt(-50), Frac(27, 2), Frac(-1, 3)}

CashflowLists == UNION {[1..k -> CfVals] : k \in 0..MaxLen}

DiscountRates == {Zero, Frac(6, 100), Frac(1, 2)}

NoParams ==
    [CAPEX |-> Zero, debt_ratio |-> Zero, interest_rate |-> Zero, debt_term |-> 0,
     analysis_years |-> 0, operating_cost |-> Zero, op_cost_growth |-> Zero,
     depreciation_years |-> 0, tax_rate |-> Zero, salvage_value |-> Zero,
     initial_lease_payment |-> Zero, lease_escalation |-> Zero, wacc |-> Zero]

InitNpv ==
    \E cf \in CashflowLists, r \in DiscountRates :
        /\ p = [NoParams EXCEPT !.wacc = r]
        /\ pc = "npv_own"
        /\ own_cf = cf
        /\ session_state = <<>>
        /\ last_edit = <<>>
        /\ pending = ""
        /\ own = OwnBlank
        /\ lease = LeaseBlank
        /\ lease_cf = <<>>
        /\ own_npv = Zero
        /\ lease_npv = Zero
        /\ df = NoTable
        /\ error = "none"

NextNpv == NpvOwn

SpecNpv == InitNpv /\ [][NextNpv]_vars

\* the first k elements added from the left
RECURSIVE PlainSum(_, _)
PlainSum(cf, k) == IF k <= 0 THEN Zero ELSE FAdd(PlainSum(cf, k - 1), cf[k])

\* the first k elements, element t (counted from 0) divided by (1 + r)^t
RECURSIVE Discounted(_, _, _)
Discounted(cf, r, k) ==
    IF k <= 0 THEN Zero
    ELSE FAdd(Discounted(cf, r, k - 1), FDiv(cf[k], FPow(FAdd(One, r), k - 1)))

\* C6: npv(cf, r) is the sum over t of cf[t] / (1 + r)^t with the first
\* element undiscounted; at r = 0 it is the plain sum of cf, and it is 0 for
\* the empty sequence.
C6_NpvSum ==
    pc = "npv_lease" =>
        /\ own_npv = Discounted(own_cf, p.wacc, Len(own_cf))
        /\ p.wacc = Zero => own_npv = PlainSum(own_cf, Len(own_cf))
        /\ own_cf = <<>> => own_npv = Zero
        /\ Len(own_cf) = 1 => own_npv = own_cf[1]

C6_Witness ==
    /\ pc = "npv_lease"
    /\ p.wacc = Zero
    /\ Len(own_cf) = 3
    /\ own_cf[1] # own_cf[2]
    /\ own_npv = FAdd(FAdd(own_cf[1], own_cf[2]), own_cf[3])
    /\ own_npv # Zero

\* ------------------------------------------------------------------------
\* The engine on raw scalars, valid or not: the arguments are drawn at the
\* call of line 160.
\* ------------------------------------------------------------------------
RawParams ==
    [CAPEX : {FromInt(100), FromInt(-100)},
     debt_ratio : {Frac(1, 2), Frac(3, 2)},
     interest_rate : {Frac(1, 16)},
     debt_term : {-1, 0, 2},
     analysis_years : {-1, 0, 1, 2},
     operating_cost : {FromInt(12)},
     op_cost_growth : {Frac(1, 8)},
     depreciation_years : {-1, 0, 1, 2},
     tax_rate : {Frac(1, 4), Frac(5, 4)},
     salvage_value : {FromInt(40), FromInt(-40)},
     initial_lease_payment : {FromInt(18)},
     lease_escalation : {Frac(3, 100)},
     wacc : {Frac(6, 100)}]

InitRaw == \E q \in RawParams : AtCall(q)

SpecRaw == InitRaw /\ [][Next]_vars

Negative(x) == FSign(x) < 0

OutsideUnit(x) == FSign(x) < 0 \/ FSign(FSub(x, One)) > 0

Invalid(q) ==
    \/ Negative(q.CAPEX) \/ Negative(q.operating_cost) \/ Negative(q.salvage_value)
    \/ Negative(q.initial_lease_payment)
    \/ Negative(q.interest_rate) \/ Negative(q.op_cost_growth)
    \/ Negative(q.lease_escalation) \/ Negative(q.wacc)
    \/ OutsideUnit(q.debt_ratio) \/ OutsideUnit(q.tax_rate)
    \/ q.analysis_years < 1 \/ q.depreciation_years < 1
    \/ q.debt_term < 0

\* C1: on an input with a negative monetary or rate field, debtRatio or
\* taxRate outside [0,1], analysisYears or depreciationYears not a positive
\* integer, or debtTermYears negative, the engine is never run and the outcome
\* is a ValidationError (depreciationYears = 0 never reaches the division).
C1_InvalidInputRejected ==
    Invalid(p) =>
        /\ pc \in {"own_call", "error"}
        /\ pc = "error" => error = "ValidationError"

\* ------------------------------------------------------------------------
\* The interactive script: session state, the dual inputs, reruns
\* ------------------------------------------------------------------------
Keys ==
    {"CAPEX", "salvage", "op_cost", "debt_ratio", "interest_rate", "debt_term",
     "depr_years", "tax_rate", "lease_payment", "lease_escalation", "op_growth",
     "analysis_years", "wacc"}

default_values ==
    "CAPEX" :> FromInt(300) @@ "salvage" :> FromInt(40) @@ "op_cost" :> FromInt(12) @@
    "debt_ratio" :> Frac(6, 10) @@ "interest_rate" :> FromInt(4) @@ "debt_term" :> 10 @@
    "depr_years" :> 10 @@ "tax_rate" :> FromInt(25) @@ "lease_payment" :> FromInt(18) @@
    "lease_escalation" :> FromInt(3) @@ "op_growth" :> FromInt(2) @@
    "analysis_years" :> 20 @@ "wacc" :> FromInt(6)

\* the widget keys of dual_input(key): key + "_slider", key + "_input"
Slider(key) == key \o "_slider"

Input(key) == key \o "_input"

WidgetKeys == {Slider(k) : k \in Keys} \cup {Input(k) : k \in Keys}

\* the parameter a widget key belongs to
KeyOf(w) == CHOOSE k \in Keys : w \in {Slider(k), Input(k)}

\* the widgets the user operates here, and the values chosen on them (within
\* each widget's min_value..max_value)
EditKeys == {"salvage", "debt_term"}

Choices ==
    "salvage" :> {Zero, FromInt(40), FromInt(500)} @@ "debt_term" :> {1, 10, 30}

\* lines 26-28
SetDefaults(ss) ==
    [k \in DOMAIN ss \cup Keys |-> IF k \in DOMAIN ss THEN ss[k] ELSE default_values[k]]

\* a slider callback that copies the number input's value
UpdateFromSliderReadsInput(ss, key) == [ss EXCEPT ![key] = ss[Input(key)]]

\* lines 39-40
UpdateFromSlider(ss, key) == [ss EXCEPT ![key] = ss[Slider(key)]]

\* lines 42-43
UpdateFromInput(ss, key) == [ss EXCEPT ![key] = ss[Input(key)]]

Million == FromInt(1000000)

Hundred == FromInt(100)

\* lines 133-155
Working(ss) ==
    [CAPEX |-> FMul(ss["CAPEX"], Million),
     salvage_value |-> FMul(ss["salvage"], Million),
     operating_cost |-> FMul(ss["op_cost"], Million),
     initial_lease_payment |-> FMul(ss["lease_payment"], Million),
     interest_rate |-> FDiv(ss["interest_rate"], Hundred),
     tax_rate |-> FDiv(ss["tax_rate"], Hundred),
     op_cost_growth |-> FDiv(ss["op_growth"], Hundred),
     lease_escalation |-> FDiv(ss["lease_escalation"], Hundred),
     wacc |-> FDiv(ss["wacc"], Hundred),
     debt_ratio |-> ss["debt_ratio"],
     debt_term |-> ss["debt_term"],
     depreciation_years |-> ss["depr_years"],
     analysis_years |-> ss["analysis_years"]]

\* lines 45-63, for every dual_input of lines 281-332: a widget seen for the
\* first time takes value = st.session_state[key]; a widget seen before keeps
\* the state held under its own key, unless the framework takes the changed
\* value argument for a new widget (the widgets in fresh), which then starts
\* from value again.
Rendered(ss, fresh) ==
    [w \in DOMAIN ss \cup WidgetKeys |->
        IF w \notin WidgetKeys THEN ss[w]
        ELSE IF w \in DOMAIN ss /\ w \notin fresh THEN ss[w]
        ELSE ss[KeyOf(w)]]

InitDefaults ==
    /\ pc = "start"
    /\ session_state' = SetDefaults(session_state)
    /\ pc' = "read"
    /\ UNCHANGED <<last_edit, pending, p, own, lease,
                   own_cf, lease_cf, own_npv, lease_npv, df, error>>

ReadParams ==
    /\ pc = "read"
    /\ p' = Working(session_state)
    /\ pc' = "own_call"
    /\ UNCHANGED <<session_state, last_edit, pending, own, lease,
                   own_cf, lease_cf, own_npv, lease_npv, df, error>>

RenderInputs ==
    /\ pc = "render"
    /\ \E fresh \in SUBSET ({Slider(k) : k \in EditKeys} \cup {Input(k) : k \in EditKeys}) :
           session_state' = Rendered(session_state, fresh)
    /\ pc' = "idle"
    /\ UNCHANGED <<last_edit, pending, p, own, lease,
                   own_cf, lease_cf, own_npv, lease_npv, df, error>>

\* the user moves the slider of key to v: the front end stores the widget's
\* value under the widget key and schedules on_change
SliderChange ==
    /\ pc = "idle"
    /\ \E k \in EditKeys : \E v \in Choices[k] :
           /\ v # session_state[Slider(k)]
           /\ session_state' = [session_state EXCEPT ![Slider(k)] = v]
           /\ pending' = Slider(k)
           /\ last_edit' = [j \in DOMAIN last_edit \cup {k} |->
                               IF j = k THEN v ELSE last_edit[j]]
    /\ pc' = "callback"
    /\ UNCHANGED <<p, own, lease, own_cf, lease_cf, own_npv, lease_npv, df, error>>

\* the user enters v in the number input of key
InputChange ==
    /\ pc = "idle"
    /\ \E k \in EditKeys : \E v \in Choices[k] :
           /\ v # session_state[Input(k)]
           /\ session_state' = [session_state EXCEPT ![Input(k)] = v]
           /\ pending' = Input(k)
           /\ last_edit' = [j \in DOMAIN last_edit \cup {k} |->
                               IF j = k THEN v ELSE last_edit[j]]
    /\ pc' = "callback"
    /\ UNCHANGED <<p, own, lease, own_cf, lease_cf, own_npv, lease_npv, df, error>>

\* the callback runs, then the script reruns from the top
update_from_slider ==
    /\ pc = "callback"
    /\ \E k \in Keys :
           /\ pending = Slider(k)
           /\ session_state' = UpdateFromSlider(session_state, k)
    /\ pending' = ""
    /\ pc' = "start"
    /\ UNCHANGED <<last_edit, p, own, lease,
                   own_cf, lease_cf, own_npv, lease_npv, df, error>>

update_from_input ==
    /\ pc = "callback"
    /\ \E k \in Keys :
           /\ pending = Input(k)
           /\ session_state' = UpdateFromInput(session_state, k)
    /\ pending' = ""
    /\ pc' = "start"
    /\ UNCHANGED <<last_edit, p, own, lease,
                   own_cf, lease_cf, own_npv, lease_npv, df, error>>

\* a fresh session: nothing in st.session_state, the script about to run
InitUI ==
    /\ session_state = <<>>
    /\ last_edit = <<>>
    /\ pending = ""
    /\ pc = "start"
    /\ p = NoParams
    /\ own = OwnBlank
    /\ lease = LeaseBlank
    /\ own_cf = <<>>
    /\ lease_cf = <<>>
    /\ own_npv = Zero
    /\ lease_npv = Zero
    /\ df = NoTable
    /\ error = "none"

NextUI ==
    \/ InitDefaults \/ ReadParams \/ Engine \/ RenderInputs
    \/ SliderChange \/ InputChange \/ update_from_slider \/ update_from_input

SpecUI == InitUI /\ [][NextUI]_vars

\* the value the parameter cell of key must hold
Expected(k) == IF k \in DOMAIN last_edit THEN last_edit[k] ELSE default_values[k]

\* C10: after any sequence of slider and number-input changes, each followed
\* by its callback, st.session_state[key] is the value of the widget changed
\* last (the default if neither was), no callback and no default
\* initialization disturbs another key, and the run that follows computes the
\* engine on these values.
C10_SharedCell ==
    /\ pc # "start" => Keys \subseteq DOMAIN session_state
    /\ \A k \in Keys \cap DOMAIN session_state :
           \/ pc = "callback" /\ pending \in {Slider(k), Input(k)}
           \/ session_state[k] = Expected(k)
    /\ pc = "callback" =>
           /\ pending \in DOMAIN session_state
           /\ session_state[pending] = last_edit[KeyOf(pending)]
    /\ pc \notin {"start", "read", "callback"} =>
           /\ p = Working(session_state)
           /\ p.salvage_value = FMul(Expected("salvage"), Million)
           /\ p.debt_term = Expected("debt_term")
    /\ pc # "error"

C10_Witness ==
    /\ pc = "idle"
    /\ DOMAIN last_edit = EditKeys
    /\ session_state["salvage"] = session_state[Input("salvage")]
    /\ session_state[Slider("salvage")] # session_state[Input("salvage")]
    /\ session_state[Slider("salvage")] # default_values["salvage"]
    /\ session_state["salvage"] # default_values["salvage"]
    /\ session_state["debt_term"] = session_state[Slider("debt_term")]
    /\ session_state[Input("debt_term")] # session_state[Slider("debt_term")]
    /\ p.salvage_value = FMul(session_state[Input("salvage")], Million)
    /\ p.debt_term = 30
    /\ Len(own_cf) = 21

====
